---- MODULE Spec2Model ----
(***************************************************************************)
(* A model of PropAppvl.py: approval, satisfaction-approval, brute-force   *)
(* proportional approval, sequential and eliminative proportional approval *)
(* and Phragmen's method, run on a caller's ballot box.                    *)
(*                                                                         *)
(* Numbers.  Python's int/float values are modelled as exact rationals     *)
(* <<numerator, denominator>> in lowest terms with a positive denominator. *)
(* Positions.  Python indexes from 0; sequences here are indexed from 1,   *)
(* so source index ix is position ix + 1.                                  *)
(* Lines 159, 179 and 223 of the source read "if not IsBBox(BBox) return   *)
(* None" (the colon is missing); they are modelled as the guard they       *)
(* spell, "if not IsBBox(BBox): return None".                              *)
(***************************************************************************)
EXTENDS Integers, Sequences, FiniteSets, TLC

\* ------------------------------------------------------------------ bounds
\* Generic ballot boxes: at most MaxCands candidates, MaxBallots ballots,
\* MaxCells vote entries, weights 0..MaxWeight, vote values 0..MaxVote.
MaxCands == 3
MaxBallots == 2
MaxCells == 4
MaxWeight == 2
MaxVote == 2

\* ------------------------------------------------------- rational numbers
Abs(n) == IF n < 0 THEN -n ELSE n

RECURSIVE GCD(_, _)
GCD(a, b) == IF b = 0 THEN a ELSE GCD(b, a % b)

Rat(n, d) ==
    LET g == GCD(Abs(n), Abs(d))
        s == IF d < 0 THEN -1 ELSE 1
    IN  <<(s * n) \div g, (s * d) \div g>>

RInt(n) == <<n, 1>>
RAdd(x, y) == Rat(x[1] * y[2] + y[1] * x[2], x[2] * y[2])
RMul(x, y) == Rat(x[1] * y[1], x[2] * y[2])
RDiv(x, y) == Rat(x[1] * y[2], x[2] * y[1])
RLt(x, y) == x[1] * y[2] < y[1] * x[2]
RLeq(x, y) == x[1] * y[2] <= y[1] * x[2]
RScale(x, k) == Rat(x[1] * k, x[2])

RECURSIVE RSum(_)
RSum(s) == IF s = <<>> THEN RInt(0) ELSE RAdd(RSum(SubSeq(s, 1, Len(s) - 1)), s[Len(s)])

RECURSIVE ISum(_)
ISum(s) == IF s = <<>> THEN 0 ELSE ISum(SubSeq(s, 1, Len(s) - 1)) + s[Len(s)]

\* ------------------------------------------------------- sequence helpers
\* del s[i]
DelAt(s, i) == SubSeq(s, 1, i - 1) \o SubSeq(s, i + 1, Len(s))

\* sorted(..., key=itemgetter(1), reverse=...): Python's sort is stable, also
\* with reverse=True, so entries with equal keys keep their input order.
RECURSIVE InsertSorted(_, _, _)
InsertSorted(s, e, reverse) ==
    IF s = <<>> THEN <<e>>
    ELSE IF (IF reverse THEN RLt(s[1][2], e[2]) ELSE RLt(e[2], s[1][2]))
         THEN <<e>> \o s
         ELSE <<s[1]>> \o InsertSorted(Tail(s), e, reverse)

RECURSIVE Sorted(_, _)
Sorted(s, reverse) ==
    IF s = <<>> THEN <<>>
    ELSE InsertSorted(Sorted(SubSeq(s, 1, Len(s) - 1), reverse), s[Len(s)], reverse)

\* itertools.combinations(range(n), r), in its (lexicographic) order;
\* Combs(lo, n, r) lists the r-combinations of lo..n.
RECURSIVE Combs(_, _, _)
Combs(lo, n, r) ==
    IF r = 0 THEN << <<>> >>
    ELSE IF lo > n THEN <<>>
    ELSE LET with == Combs(lo + 1, n, r - 1)
         IN  [k \in 1..Len(with) |-> <<lo>> \o with[k]] \o Combs(lo + 1, n, r)

combinations(n, r) == Combs(1, n, r)

\* ------------------------------------------------------------ the program
TotalText == "(Total)"

\* Return values: None, a value, or an exception raised.
ReturnNone == [status |-> "None", value |-> <<>>]
Return(v) == [status |-> "value", value |-> v]
Raise(e) == [status |-> "raise", value |-> <<e>>]

\* Check the ballot box
IsBBox(BBox) ==
    IF Len(BBox) # 3 THEN FALSE
    ELSE LET Cands == BBox[1]
             Wts == BBox[2]
             Votes == BBox[3]
         IN  IF Len(Votes) # Len(Wts) THEN FALSE
             ELSE \A b \in 1..Len(Votes) : Len(Votes[b]) = Len(Cands)

\* Are the ballots pure approval?
IsBBoxApproval(BBox) ==
    IF ~IsBBox(BBox) THEN FALSE
    ELSE \A b \in 1..Len(BBox[3]) : \A k \in 1..Len(BBox[3][b]) : BBox[3][b][k] \in {0, 1}

\* Highest-averages factors: a finite f, or None (infinity).
Finite(f) == [none |-> FALSE, f |-> f]
Infinite == [none |-> TRUE, f |-> 0]

\* As HighAvgWeight, but testing the factor with "if not f": f = 0 is taken for None
HighAvgWeightFalsy(i, fac) ==
    IF fac.none \/ fac.f = 0 THEN (IF i = 0 THEN RInt(1) ELSE RInt(0))
    ELSE Rat(1, 1 + fac.f * i)

\* Highest-averages weighting
HighAvgWeight(i, fac) ==
    IF fac.none THEN (IF i = 0 THEN RInt(1) ELSE RInt(0))
    ELSE Rat(1, 1 + fac.f * i)

\* Highest-averages satisfaction function
HighAvgSatisfy(n, fac) == RSum([i \in 1..(n + 1) |-> HighAvgWeight(i - 1, fac)])

\* The functions callers pass as SatFunc / WtFunc: lambda n: HighAvgSatisfy(n,fac)
\* and lambda n: HighAvgWeight(n,fac).
Satisfy(fac) == [fn |-> "HighAvgSatisfy", fac |-> fac]
Weight(fac) == [fn |-> "HighAvgWeight", fac |-> fac]
Apply(func, n) ==
    IF func.fn = "HighAvgSatisfy" THEN HighAvgSatisfy(n, func.fac) ELSE HighAvgWeight(n, func.fac)

\* Sums[ix] += wt*vt over the ballots
ApprovalSums(NCands, Wts, Votes) ==
    [ix \in 1..NCands |-> RSum([b \in 1..Len(Wts) |-> RScale(Wts[b], Votes[b][ix])])]

\* As Approval, but sorting without reverse=True
ApprovalAscending(BBox) ==
    IF ~IsBBox(BBox) THEN ReturnNone
    ELSE LET Cands == BBox[1]
             Wts == BBox[2]
             Votes == BBox[3]
             NCands == Len(Cands)
             Sums == ApprovalSums(NCands, Wts, Votes)
             TotWts == RSum(Wts)
             csms == Sorted([ix \in 1..NCands |-> <<Cands[ix], Sums[ix]>>], FALSE)
         IN  Return(csms \o << <<TotalText, TotWts>> >>)

\* Approval voting
Approval(BBox) ==
    IF ~IsBBox(BBox) THEN ReturnNone
    ELSE LET Cands == BBox[1]
             Wts == BBox[2]
             Votes == BBox[3]
             NCands == Len(Cands)
             Sums == ApprovalSums(NCands, Wts, Votes)
             TotWts == RSum(Wts)
             csms == Sorted([ix \in 1..NCands |-> <<Cands[ix], Sums[ix]>>], TRUE)
         IN  Return(csms \o << <<TotalText, TotWts>> >>)

\* Satisfaction approval voting
SatAppvl(BBox) ==
    IF ~IsBBox(BBox) THEN ReturnNone
    ELSE LET Cands == BBox[1]
             Wts == BBox[2]
             Votes == BBox[3]
             NewWts == [b \in 1..Len(Wts) |->
                          LET VoteSum == ISum(Votes[b])
                          IN  IF VoteSum # 0 THEN RDiv(Wts[b], RInt(VoteSum)) ELSE RInt(0)]
         IN  Approval(<<Cands, NewWts, Votes>>)

\* SumSats of one combination: wt*SatFunc(sum(vts[ix] for ix in ixs)) over the ballots
SumSatsOf(ixs, Wts, Votes, SatFunc) ==
    RSum([b \in 1..Len(Wts) |->
            RMul(Wts[b], Apply(SatFunc, ISum([j \in 1..Len(ixs) |-> Votes[b][ixs[j]]])))])

\* As BetterSumSats, but with >= for >
BetterOrEqualSumSats(SumSats, BestSumSats) == RLeq(BestSumSats, SumSats)

\* The update of (BestIxs, BestSumSats) in the loop over the combinations
BetterSumSats(SumSats, BestSumSats) == RLt(BestSumSats, SumSats)

RECURSIVE PropAppvlLoop(_, _, _, _, _, _)
PropAppvlLoop(combs, k, best, Wts, Votes, SatFunc) ==
    IF k > Len(combs) THEN best
    ELSE LET ixs == combs[k]
             SumSats == SumSatsOf(ixs, Wts, Votes, SatFunc)
             next == IF best.none
                     THEN [none |-> FALSE, BestIxs |-> ixs, BestSumSats |-> SumSats]
                     ELSE IF BetterSumSats(SumSats, best.BestSumSats)
                          THEN [none |-> FALSE, BestIxs |-> ixs, BestSumSats |-> SumSats]
                          ELSE best
         IN  PropAppvlLoop(combs, k + 1, next, Wts, Votes, SatFunc)

\* As PropAppvl, but without the NSeats > NCands check
PropAppvlNoSeatCheck(BBox, SatFunc, NSeats) ==
    IF ~IsBBoxApproval(BBox) THEN ReturnNone
    ELSE LET Cands == BBox[1]
             Wts == BBox[2]
             Votes == BBox[3]
             NCands == Len(Cands)
             best == PropAppvlLoop(combinations(NCands, NSeats), 1,
                                   [none |-> TRUE, BestIxs |-> <<>>, BestSumSats |-> RInt(0)],
                                   Wts, Votes, SatFunc)
         IN  IF best.none THEN Raise("TypeError")
             ELSE Return([j \in 1..Len(best.BestIxs) |-> Cands[best.BestIxs[j]]])

\* Proportional approval voting
PropAppvl(BBox, SatFunc, NSeats) ==
    IF ~IsBBoxApproval(BBox) THEN ReturnNone
    ELSE LET Cands == BBox[1]
             Wts == BBox[2]
             Votes == BBox[3]
             NCands == Len(Cands)
         IN  IF NSeats > NCands THEN ReturnNone
             ELSE LET best == PropAppvlLoop(combinations(NCands, NSeats), 1,
                                            [none |-> TRUE, BestIxs |-> <<>>, BestSumSats |-> RInt(0)],
                                            Wts, Votes, SatFunc)
                  IN  Return([j \in 1..Len(best.BestIxs) |-> Cands[best.BestIxs[j]]])

\* Candidate-list ballots to standard format.  CList.sort() orders the names;
\* Alphabet lists the names the examples use in that order.
Alphabet == <<"A", "B", "C", "D", "P", "Q", "R", "X", "Y", "Z">>

CandListsToBBox(BLists) ==
    LET CSet == UNION {BLists[b][2] : b \in 1..Len(BLists)}
        CList == SelectSeq(Alphabet, LAMBDA c : c \in CSet)
    IN  <<CList,
          [b \in 1..Len(BLists) |-> RInt(BLists[b][1])],
          [b \in 1..Len(BLists) |->
              [k \in 1..Len(CList) |-> IF CList[k] \in BLists[b][2] THEN 1 ELSE 0]]>>

\* The example ballots of __main__
CLPAV == << <<5, {"A", "B"}>>, <<17, {"A", "C"}>>, <<8, {"D"}>> >>
CLBKP == << <<2, {"A"}>>, <<5, {"A", "B"}>>, <<3, {"A", "C"}>>, <<2, {"B", "C"}>>, <<4, {"D"}>> >>
CLSAV == << <<4, {"A", "B"}>>, <<3, {"C"}>>, <<3, {"D"}>> >>
ExampleBoxes == {CandListsToBBox(CLPAV), CandListsToBBox(CLBKP), CandListsToBBox(CLSAV)}

\* ----------------------------------------------------------- the inputs
\* Well-formed boxes within the bounds: candidates named in Alphabet order,
\* weights 0..MaxWeight, votes 0..MaxVote (rated; 0/1 rows are approval rows).
Shapes ==
    {sh \in (0..MaxCands) \X (0..MaxBallots) : sh[1] * sh[2] <= MaxCells}

BoxesOfShape(nc, nb, wts, vts) ==
    {<<SubSeq(Alphabet, 1, nc), w, v>> :
        w \in [1..nb -> {RInt(x) : x \in wts}],
        v \in [1..nb -> [1..nc -> vts]]}

GenericBoxes == UNION {BoxesOfShape(sh[1], sh[2], 0..MaxWeight, 0..MaxVote) : sh \in Shapes}

\* Boxes that are not structurally valid: a small approval box with unit
\* weights, with one component, weight or vote entry dropped or added.
SmallBoxes == UNION {BoxesOfShape(nc, nb, {1}, {0, 1}) : nc \in 1..2, nb \in 1..2}

Defects(b) ==
    { <<b[1], b[2]>>,
      <<b[1], b[2], b[3], <<>> >>,
      <<b[1], Tail(b[2]), b[3]>>,
      <<b[1], b[2] \o <<RInt(1)>>, b[3]>>,
      <<b[1], b[2], <<Tail(b[3][1])>> \o Tail(b[3])>>,
      <<b[1], b[2], <<b[3][1] \o <<1>> >> \o Tail(b[3])>>,
      <<Tail(b[1]), b[2], b[3]>> }

MalformedBoxes == UNION {Defects(b) : b \in SmallBoxes}

Boxes == GenericBoxes \cup ExampleBoxes \cup MalformedBoxes

\* The functions and factors of the demo driver (HAFactorList).
HAFactorList == {Finite(0), Finite(1), Finite(2), Infinite}
SatFuncs == {Satisfy(fac) : fac \in HAFactorList} \cup {Weight(Finite(1))}
WtFuncs == {Weight(fac) : fac \in HAFactorList}

\* ------------------------------------------------------------- the state
VARIABLES
    box,      \* the caller's ballot box
    pc,       \* "idle", "returned", or the rule whose round loop is running
    args,     \* the running call: its method and parameters
    Cands,    \* working copy of the candidate list
    Votes,    \* working vote rows: [rows, own]
    Victs,    \* SeqPropAppvl: per-ballot victory counts
    bloads,   \* Phragmen: per-ballot loads
    vdrcp,    \* Phragmen: per-candidate reciprocal of total support
    CandRes,  \* the per-round results so far
    ic,       \* the round loop's index
    rounds,   \* the round loop's range(NCands) bound
    last,     \* the most recent completed call: [sig, res]
    prev      \* the result of the call before it, when it was the same call

vars == <<box, pc, args, Cands, Votes, Victs, bloads, vdrcp, CandRes, ic, rounds, last, prev>>

NoFunc == [fn |-> "-", fac |-> Infinite]
Sig(method, func, n, dir) == [method |-> method, func |-> func, n |-> n, dir |-> dir]
NoSig == Sig("-", NoFunc, 0, FALSE)
NoRes == [status |-> "-", value |-> <<>>]
NoRows == [rows |-> <<>>, own |-> TRUE]

\* As WorkingRows, but keeping the caller's row objects
SharedRows(rows) == [rows |-> rows, own |-> FALSE]

\* Votes = tuple(map(list,Votes)): the working rows are fresh lists the
\* call owns, not the caller's row objects.
WorkingRows(rows) == [rows |-> rows, own |-> TRUE]

\* del vts[mxix] for every working row: the caller's box sees it only if the
\* working rows are the caller's own row objects.
BoxAfterDelete(BBox, work, mxix) ==
    IF work.own THEN BBox
    ELSE <<BBox[1], BBox[2], [b \in 1..Len(BBox[3]) |-> DelAt(BBox[3][b], mxix)]>>

DeleteColumn(work, mxix) ==
    [work EXCEPT !.rows = [b \in 1..Len(work.rows) |-> DelAt(work.rows[b], mxix)]]

Init ==
    /\ box \in Boxes
    /\ pc = "idle"
    /\ args = NoSig
    /\ Cands = <<>>
    /\ Votes = NoRows
    /\ Victs = <<>>
    /\ bloads = <<>>
    /\ vdrcp = <<>>
    /\ CandRes = <<>>
    /\ ic = 0
    /\ rounds = 0
    /\ last = [sig |-> NoSig, res |-> NoRes]
    /\ prev = NoRes

\* A call returns res to the caller
Completes(sig, res) ==
    /\ pc' = "returned"
    /\ args' = NoSig
    /\ Cands' = <<>>
    /\ Votes' = NoRows
    /\ Victs' = <<>>
    /\ bloads' = <<>>
    /\ vdrcp' = <<>>
    /\ CandRes' = <<>>
    /\ ic' = 0
    /\ rounds' = 0
    /\ last' = [sig |-> sig, res |-> res]

\* The caller starts a call: a fresh one, or the call it has just made again
\* on the same box, whose earlier result it keeps to compare
Starts(sig) ==
    \/ /\ pc = "idle"
       /\ prev' = NoRes
    \/ /\ pc = "returned"
       /\ last.sig = sig
       /\ prev' = last.res

\* The caller is done with the result (DumpAll prints it and moves on)
Discard ==
    /\ pc = "returned"
    /\ pc' = "idle"
    /\ last' = [sig |-> NoSig, res |-> NoRes]
    /\ prev' = NoRes
    /\ UNCHANGED <<box, args, Cands, Votes, Victs, bloads, vdrcp, CandRes, ic, rounds>>

CallApproval ==
    LET sig == Sig("Approval", NoFunc, 0, FALSE)
    IN  /\ Starts(sig)
        /\ Completes(sig, Approval(box))
        /\ box' = box

CallSatAppvl ==
    LET sig == Sig("SatAppvl", NoFunc, 0, FALSE)
    IN  /\ Starts(sig)
        /\ Completes(sig, SatAppvl(box))
        /\ box' = box

CallPropAppvl ==
    \E SatFunc \in SatFuncs, NSeats \in 0..(Len(box[1]) + 1) :
        LET sig == Sig("PropAppvl", SatFunc, NSeats, FALSE)
        IN  /\ Starts(sig)
            /\ Completes(sig, PropAppvl(box, SatFunc, NSeats))
            /\ box' = box

\* A call enters its round loop over range(NCands)
EntersLoop(sig, work, n) ==
    /\ pc' = sig.method
    /\ args' = sig
    /\ Cands' = box[1]
    /\ Votes' = work
    /\ CandRes' = <<>>
    /\ ic' = 0
    /\ rounds' = n
    /\ last' = [sig |-> NoSig, res |-> NoRes]
    /\ box' = box

\* The loop is exhausted: return tuple(CandRes)
LoopReturns ==
    /\ pc \in {"SeqPropAppvl", "ElimPropAppvl", "Phragmen"}
    /\ ic >= rounds
    /\ Completes(args, Return(CandRes))
    /\ UNCHANGED <<box, prev>>

\* ---- Sequential proportional approval voting
SeqPropAppvlBegin ==
    \E WtFunc \in WtFuncs :
        LET sig == Sig("SeqPropAppvl", WtFunc, 0, FALSE)
        IN  /\ Starts(sig)
            /\ IF ~IsBBox(box)
               THEN Completes(sig, ReturnNone) /\ box' = box
               ELSE /\ EntersLoop(sig, WorkingRows(box[3]), Len(box[1]))
                    /\ Victs' = [b \in 1..Len(box[2]) |-> 0]
                    /\ UNCHANGED <<bloads, vdrcp>>

\* adjwt = wt*WtFunc(vc) of every ballot
SeqAdjWts(Wts, victs, WtFunc) ==
    [b \in 1..Len(Wts) |-> RMul(Wts[b], Apply(WtFunc, victs[b]))]

\* Sums[ix] += adjwt*vt
SeqSums(NCands, adjwts, rows) ==
    [ix \in 1..NCands |-> RSum([b \in 1..Len(adjwts) |-> RScale(adjwts[b], rows[b][ix])])]

\* csms of a SeqPropAppvl round: (candidate, score, index), best score first
SeqOrder(cands, sums) ==
    Sorted([ix \in 1..Len(cands) |-> <<cands[ix], sums[ix], ix>>], TRUE)

\* As VictsAfter, but counting a victory per supported winner, whatever the rating
VictsAfterCounted(victs, rows, mxix) ==
    [k \in 1..Len(victs) |-> victs[k] + (IF rows[k][mxix] # 0 THEN 1 ELSE 0)]

\* Victs[k] += Votes[k][mxix]
VictsAfter(victs, rows, mxix) == [k \in 1..Len(victs) |-> victs[k] + rows[k][mxix]]

\* As RoundResult, but without the sentinel entry
RoundResultNoTotal(csms, TotWts) == [k \in 1..Len(csms) |-> <<csms[k][1], csms[k][2]>>]

\* csms = [cm[0:2] for cm in csms] + [(TotalText,TotWts)]
RoundResult(csms, TotWts) ==
    [k \in 1..Len(csms) |-> <<csms[k][1], csms[k][2]>>] \o << <<TotalText, TotWts>> >>

SeqPropAppvlRound ==
    /\ pc = "SeqPropAppvl"
    /\ ic < rounds
    /\ LET NCands == Len(Cands)
           adjwts == SeqAdjWts(box[2], Victs, args.func)
           Sums == SeqSums(NCands, adjwts, Votes.rows)
           TotWts == RSum(adjwts)
           csms == SeqOrder(Cands, Sums)
           mxix == csms[1][3]
       IN  /\ Victs' = VictsAfter(Victs, Votes.rows, mxix)
           /\ CandRes' = Append(CandRes, RoundResult(csms, TotWts))
           /\ Cands' = DelAt(Cands, mxix)
           /\ Votes' = DeleteColumn(Votes, mxix)
           /\ box' = BoxAfterDelete(box, Votes, mxix)
    /\ ic' = ic + 1
    /\ UNCHANGED <<pc, args, bloads, vdrcp, rounds, last, prev>>

\* ---- Eliminative proportional approval voting
ElimPropAppvlBegin ==
    \E SatFunc \in SatFuncs, SortDir \in BOOLEAN :
        LET sig == Sig("ElimPropAppvl", SatFunc, 0, SortDir)
        IN  /\ Starts(sig)
            /\ IF ~IsBBoxApproval(box)
               THEN Completes(sig, ReturnNone) /\ box' = box
               ELSE /\ EntersLoop(sig, WorkingRows(box[3]), Len(box[1]))
                    /\ UNCHANGED <<Victs, bloads, vdrcp>>

\* Sums[ix] += wt*SatFunc(sum(vts[:ix]) + sum(vts[ix+1:]))
ElimSums(NCands, Wts, rows, SatFunc) ==
    [ix \in 1..NCands |->
        RSum([b \in 1..Len(Wts) |->
                RMul(Wts[b], Apply(SatFunc, ISum(SubSeq(rows[b], 1, ix - 1))
                                             + ISum(SubSeq(rows[b], ix + 1, NCands))))])]

\* As ElimOrder, but sorting the other way
ElimOrderFlipped(cands, sums, SortDir) ==
    Sorted([ix \in 1..Len(cands) |-> <<cands[ix], sums[ix], ix>>], ~SortDir)

\* csms of an ElimPropAppvl round: sorted(..., reverse=SortDir)
ElimOrder(cands, sums, SortDir) ==
    Sorted([ix \in 1..Len(cands) |-> <<cands[ix], sums[ix], ix>>], SortDir)

ElimPropAppvlRound ==
    /\ pc = "ElimPropAppvl"
    /\ ic < rounds
    /\ LET NCands == Len(Cands)
           Sums == ElimSums(NCands, box[2], Votes.rows, args.func)
           csms == ElimOrder(Cands, Sums, args.dir)
           mxix == csms[1][3]
       IN  /\ CandRes' = Append(CandRes, RoundResult(csms, RSum(box[2])))
           /\ Cands' = DelAt(Cands, mxix)
           /\ Votes' = DeleteColumn(Votes, mxix)
           /\ box' = BoxAfterDelete(box, Votes, mxix)
    /\ ic' = ic + 1
    /\ UNCHANGED <<pc, args, Victs, bloads, vdrcp, rounds, last, prev>>

\* ---- Phragmen's algorithm
\* vpdnm[k] += wt*vts[k]: each candidate's total weighted approval
Vpdnm(BBox) == ApprovalSums(Len(BBox[1]), BBox[2], BBox[3])

\* vdrcp = [1/float(x) for x in vpdnm] raises ZeroDivisionError on a zero x
ReciprocalsRaise(vpdnm) == \E k \in 1..Len(vpdnm) : vpdnm[k][1] = 0

PhragmenBegin ==
    LET sig == Sig("Phragmen", NoFunc, 0, FALSE)
    IN  /\ Starts(sig)
        /\ IF ~IsBBoxApproval(box)
           THEN Completes(sig, ReturnNone) /\ box' = box
           ELSE IF ReciprocalsRaise(Vpdnm(box))
           THEN Completes(sig, Raise("ZeroDivisionError")) /\ box' = box
           ELSE /\ EntersLoop(sig, WorkingRows(box[3]), Len(box[1]))
                /\ vdrcp' = [k \in 1..Len(box[1]) |-> RDiv(RInt(1), Vpdnm(box)[k])]
                /\ bloads' = [b \in 1..Len(box[2]) |-> RInt(0)]
                /\ UNCHANGED Victs

\* vpnum[k] = 1 + sum of bl*wt*vts[k]; vpwr = rd*nm
Vpwr(NCands, loads, Wts, rows, rcp) ==
    [k \in 1..NCands |->
        RMul(rcp[k],
             RAdd(RInt(1),
                  RSum([b \in 1..Len(Wts) |-> RScale(RMul(loads[b], Wts[b]), rows[b][k])])))]

\* csms of a Phragmen round: sorted(..., reverse=False), least voting power first
PhragmenOrder(cands, vpwr) ==
    Sorted([k \in 1..Len(cands) |-> <<cands[k], vpwr[k], k>>], FALSE)

\* As LoadsAfter, but adding the voting power to the load
LoadsAfterAdded(loads, rows, mnix, mnvp) ==
    [b \in 1..Len(loads) |-> IF rows[b][mnix] # 0 THEN RAdd(loads[b], mnvp) ELSE loads[b]]

\* bloads = [mnvp if vts[mnix] != 0 else bl ...]
LoadsAfter(loads, rows, mnix, mnvp) ==
    [b \in 1..Len(loads) |-> IF rows[b][mnix] # 0 THEN mnvp ELSE loads[b]]

PhragmenRound ==
    /\ pc = "Phragmen"
    /\ ic < rounds
    /\ LET NCands == Len(Cands)
           vpwr == Vpwr(NCands, bloads, box[2], Votes.rows, vdrcp)
           csms == PhragmenOrder(Cands, vpwr)
           mnvp == csms[1][2]
           mnix == csms[1][3]
       IN  IF \E k \in 1..NCands : vpwr[k][1] = 0
           THEN \* 1./cm[1] raises ZeroDivisionError
                /\ Completes(args, Raise("ZeroDivisionError"))
                /\ UNCHANGED <<box, prev>>
           ELSE /\ bloads' = LoadsAfter(bloads, Votes.rows, mnix, mnvp)
                /\ CandRes' = Append(CandRes,
                       [k \in 1..NCands |-> <<csms[k][1], RDiv(RInt(1), csms[k][2])>>]
                       \o << <<TotalText, RSum(box[2])>> >>)
                /\ Cands' = DelAt(Cands, mnix)
                /\ vdrcp' = DelAt(vdrcp, mnix)
                /\ Votes' = DeleteColumn(Votes, mnix)
                /\ box' = BoxAfterDelete(box, Votes, mnix)
                /\ ic' = ic + 1
                /\ UNCHANGED <<pc, args, Victs, rounds, last, prev>>

Next ==
    \/ CallApproval
    \/ CallSatAppvl
    \/ CallPropAppvl
    \/ SeqPropAppvlBegin
    \/ SeqPropAppvlRound
    \/ ElimPropAppvlBegin
    \/ ElimPropAppvlRound
    \/ PhragmenBegin
    \/ PhragmenRound
    \/ LoopReturns
    \/ Discard

Spec == Init /\ [][Next]_vars

TypeOK == pc \in {"idle", "returned", "SeqPropAppvl", "ElimPropAppvl", "Phragmen"}

\* ============================================================ properties
\* Vocabulary of the properties, stated on the caller's box.
StructurallyValid(b) ==
    /\ Len(b) = 3
    /\ Len(b[3]) = Len(b[2])
    /\ \A r \in 1..Len(b[3]) : Len(b[3][r]) = Len(b[1])

ApprovalRestricted(b) ==
    /\ StructurallyValid(b)
    /\ \A r \in 1..Len(b[3]) : \A k \in 1..Len(b[1]) : b[3][r][k] = 0 \/ b[3][r][k] = 1

Returned(method) == pc = "returned" /\ last.sig.method = method

\* Position of candidate c in the caller's candidate order
Pos(c) == CHOOSE k \in 1..Len(box[1]) : box[1][k] = c

\* Which of two candidates comes first in the caller's order
Earlier(c, d) == Pos(c) < Pos(d)

\* Total weighted approval of the candidate at position k
Support(k) == RSum([b \in 1..Len(box[2]) |-> RScale(box[2][b], box[3][b][k])])

\* The candidates of a round result (all entries but the sentinel), as a set
RoundCands(round) == {round[j][1] : j \in 1..(Len(round) - 1)}

\* The first entry's candidate of each of the first k rounds
Firsts(res, k) == {res[j][1][1] : j \in 1..k}

WikiBox == CandListsToBBox(CLPAV)

\* ---------------------------------------------------------------- C1
\* C1: a rule called on a box that fails its precondition returns None and
\* does not raise: Approval, SatAppvl, SeqPropAppvl on a box that is not
\* structurally valid; PropAppvl, ElimPropAppvl, Phragmen on a box that is not
\* approval-restricted; PropAppvl also when seats > NCands.
C1_NullOnFailedPrecondition ==
    pc = "returned" =>
        /\ (last.sig.method \in {"Approval", "SatAppvl", "SeqPropAppvl"}
              /\ ~StructurallyValid(box)) => last.res = ReturnNone
        /\ (last.sig.method \in {"PropAppvl", "ElimPropAppvl", "Phragmen"}
              /\ ~ApprovalRestricted(box)) => last.res = ReturnNone
        /\ (last.sig.method = "PropAppvl" /\ ApprovalRestricted(box)
              /\ last.sig.n > Len(box[1])) => last.res = ReturnNone

\* PropAppvl has returned None for too many seats on an approval box, and
\* (in other runs) rules have returned None on ragged and rated boxes.
C1_Witness ==
    /\ Returned("PropAppvl")
    /\ ApprovalRestricted(box)
    /\ Len(box[1]) >= 2
    /\ last.sig.n > Len(box[1])
    /\ last.res = ReturnNone

\* ---------------------------------------------------------------- C2
ZeroSupportCands == {box[1][k] : k \in {j \in 1..Len(box[1]) : Support(j)[1] = 0}}

\* C2: Phragmen on an approval-restricted box with a zero-support candidate
\* returns a result (no division fault), and no round is won by a
\* zero-support candidate while a supported candidate remains.
C2_PhragmenZeroSupport ==
    (Returned("Phragmen") /\ ApprovalRestricted(box) /\ ZeroSupportCands # {}) =>
        /\ last.res.status = "value"
        /\ \A k \in 1..Len(last.res.value) :
              last.res.value[k][1][1] \in ZeroSupportCands
                  => RoundCands(last.res.value[k]) \subseteq ZeroSupportCands

\* ---------------------------------------------------------------- C3
\* Satisfaction left when candidate c is removed from the remaining set R
SatisfactionWithout(c, R, SatFunc) ==
    RSum([b \in 1..Len(box[2]) |->
            RMul(box[2][b],
                 Apply(SatFunc, Cardinality({d \in R \ {c} : box[3][b][Pos(d)] = 1})))])

\* Round k of the running ElimPropAppvl call scores every remaining candidate
\* by the satisfaction without it, and drops exactly its first entry.
ElimRoundScored(k) ==
    LET round == CandRes[k]
        R == RoundCands(round)
    IN  /\ R = {box[1][j] : j \in 1..Len(box[1])} \ Firsts(CandRes, k - 1)
        /\ Len(round) = Cardinality(R) + 1
        /\ \A j \in 1..(Len(round) - 1) :
              round[j][2] = SatisfactionWithout(round[j][1], R, args.func)
        /\ (IF k < Len(CandRes) THEN RoundCands(CandRes[k + 1])
            ELSE {Cands[j] : j \in 1..Len(Cands)}) = R \ {round[1][1]}
        /\ Len(Cands) = Len(box[1]) - Len(CandRes)

\* The candidate dropped in round k has the extreme score: the highest when
\* high is TRUE, the lowest otherwise; among equals the earliest candidate.
ElimDropsExtreme(k, high) ==
    LET round == CandRes[k]
        R == RoundCands(round)
        e == round[1][1]
        Sc(c) == SatisfactionWithout(c, R, args.func)
    IN  \A d \in R \ {e} :
           IF high THEN RLt(Sc(d), Sc(e)) \/ (Sc(d) = Sc(e) /\ Earlier(e, d))
           ELSE RLt(Sc(e), Sc(d)) \/ (Sc(d) = Sc(e) /\ Earlier(e, d))

\* C3 (as stated): each round's score is the satisfaction with the candidate
\* removed, one candidate is dropped per round, and with sortDescending TRUE
\* the dropped candidate has the lowest score, with FALSE the highest.
C3_Original ==
    pc = "ElimPropAppvl" =>
        \A k \in 1..Len(CandRes) : ElimRoundScored(k) /\ ElimDropsExtreme(k, ~args.dir)

\* C3 (amended): as above, but with sortDescending TRUE the dropped candidate
\* has the highest score (the candidate least missed), with FALSE the lowest;
\* ties go to the earliest remaining candidate.
C3_ElimDropsSortedFirst ==
    pc = "ElimPropAppvl" =>
        \A k \in 1..Len(CandRes) : ElimRoundScored(k) /\ ElimDropsExtreme(k, args.dir)

\* A descending ElimPropAppvl run has dropped, in its first round, a
\* candidate whose score is strictly above another's, and gone on.
C3_Witness ==
    /\ pc = "ElimPropAppvl"
    /\ args.dir
    /\ Len(CandRes) >= 2
    /\ \E j \in 2..(Len(CandRes[1]) - 1) : RLt(CandRes[1][j][2], CandRes[1][1][2])

\* ---------------------------------------------------------------- C4
WikiFlatTwoSeats ==
    /\ Returned("PropAppvl")
    /\ box = WikiBox
    /\ last.sig.func = Satisfy(Finite(0))
    /\ last.sig.n = 2

\* C4 (as stated): PropAppvl on the Wiki PAV box with flat satisfaction and
\* two seats selects exactly A and D.
C4_Original ==
    WikiFlatTwoSeats =>
        /\ last.res.status = "value"
        /\ {last.res.value[j] : j \in 1..Len(last.res.value)} = {"A", "D"}

\* C4 (amended): that call selects exactly A and C, returned as (A, C).
C4_WikiFlatSelectsAC ==
    WikiFlatTwoSeats => last.res = Return(<<"A", "C">>)

C4_Witness == WikiFlatTwoSeats /\ last.res.status = "value"

\* ---------------------------------------------------------------- C5
SeatSets(n) == {S \in SUBSET (1..Len(box[1])) : Cardinality(S) = n}

TotalSatisfaction(S, SatFunc) ==
    RSum([b \in 1..Len(box[2]) |->
            RMul(box[2][b], Apply(SatFunc, Cardinality({k \in S : box[3][b][k] = 1})))])

MaximalSets(n, SatFunc) ==
    {S \in SeatSets(n) :
        \A T \in SeatSets(n) : RLeq(TotalSatisfaction(T, SatFunc), TotalSatisfaction(S, SatFunc))}

Min(S) == CHOOSE x \in S : \A y \in S : x <= y

\* S comes before T among index combinations of the same size
LexBefore(S, T) == S # T /\ Min((S \ T) \cup (T \ S)) \in S

\* C5: PropAppvl with 0 <= seats <= NCands on an approval-restricted box
\* returns, in candidate order, the combination of maximal total satisfaction
\* that is lexicographically first among the maximal ones (all candidates
\* when seats = NCands).
C5_PropAppvlFirstMaximal ==
    (Returned("PropAppvl") /\ ApprovalRestricted(box) /\ last.sig.n <= Len(box[1])) =>
        LET v == last.res.value
            S == {Pos(v[j]) : j \in 1..Len(v)}
            best == MaximalSets(last.sig.n, last.sig.func)
        IN  /\ last.res.status = "value"
            /\ Len(v) = last.sig.n
            /\ \A j \in 1..Len(v) : \E k \in 1..Len(box[1]) : box[1][k] = v[j]
            /\ \A i, j \in 1..Len(v) : i < j => Earlier(v[i], v[j])
            /\ S \in best
            /\ \A T \in best \ {S} : LexBefore(S, T)
            /\ (last.sig.n = Len(box[1]) => v = box[1])

\* PropAppvl has returned from a choice between several maximal combinations
\* of two or more seats, not all the candidates.
C5_Witness ==
    /\ Returned("PropAppvl")
    /\ ApprovalRestricted(box)
    /\ last.sig.n >= 2
    /\ last.sig.n < Len(box[1])
    /\ last.res.status = "value"
    /\ Cardinality(MaximalSets(last.sig.n, last.sig.func)) >= 2
    /\ Cardinality(MaximalSets(last.sig.n, last.sig.func)) < Cardinality(SeatSets(last.sig.n))

\* ---------------------------------------------------------------- C6
\* The value has one round per candidate; round k (from 0) holds NCands - k
\* entries for distinct candidates not dropped in an earlier round, then the
\* sentinel.
RoundsShape(res) ==
    /\ Len(res) = Len(box[1])
    /\ \A k \in 1..Len(res) :
          LET round == res[k]
              n == Len(box[1]) - (k - 1)
          IN  /\ Len(round) = n + 1
              /\ round[n + 1][1] = TotalText
              /\ \A j \in 1..n : \E i \in 1..Len(box[1]) : box[1][i] = round[j][1]
              /\ \A i, j \in 1..n : i # j => round[i][1] # round[j][1]
              /\ \A j \in 1..n : round[j][1] \notin Firsts(res, k - 1)

\* C6: on every box they accept, SeqPropAppvl and ElimPropAppvl return
\* exactly NCands rounds, round k with NCands - k entries for distinct
\* remaining candidates followed by the sentinel total.
C6_RoundsShape ==
    /\ (Returned("SeqPropAppvl") /\ StructurallyValid(box)) =>
          last.res.status = "value" /\ RoundsShape(last.res.value)
    /\ (Returned("ElimPropAppvl") /\ ApprovalRestricted(box)) =>
          last.res.status = "value" /\ RoundsShape(last.res.value)

\* SeqPropAppvl has returned three or more rounds.
C6_Witness ==
    /\ Returned("SeqPropAppvl")
    /\ last.res.status = "value"
    /\ Len(last.res.value) >= 3
    /\ Len(last.res.value[1]) = Len(box[1]) + 1

\* ---------------------------------------------------------------- C7
RowSum(b) == ISum(box[3][b])

\* C7: on a structurally valid box Approval returns every candidate with its
\* sum of weight*vote, by descending sum and candidate order among equal sums,
\* then (Total, sum of weights); the sums add up to the sum of weight * row
\* sum; on the Wiki PAV box the result is
\* [(A,22),(C,17),(D,8),(B,5),(Total,30)].
C7_ApprovalTally ==
    (Returned("Approval") /\ StructurallyValid(box)) =>
        LET v == last.res.value
            n == Len(box[1])
        IN  /\ last.res.status = "value"
            /\ Len(v) = n + 1
            /\ v[n + 1] = <<TotalText, RSum(box[2])>>
            /\ {v[j][1] : j \in 1..n} = {box[1][k] : k \in 1..n}
            /\ \A j \in 1..n : v[j][2] = Support(Pos(v[j][1]))
            /\ \A i, j \in 1..n :
                  i < j => \/ RLt(v[j][2], v[i][2])
                           \/ (v[j][2] = v[i][2] /\ Earlier(v[i][1], v[j][1]))
            /\ RSum([j \in 1..n |-> v[j][2]])
                 = RSum([b \in 1..Len(box[2]) |-> RScale(box[2][b], RowSum(b))])
            /\ box = WikiBox =>
                  v = << <<"A", RInt(22)>>, <<"C", RInt(17)>>, <<"D", RInt(8)>>,
                         <<"B", RInt(5)>>, <<TotalText, RInt(30)>> >>

\* Approval has returned a tally in which two candidates tie and a later
\* candidate beats an earlier one.
C7_Witness ==
    /\ Returned("Approval")
    /\ StructurallyValid(box)
    /\ last.res.status = "value"
    /\ \E i, j \in 1..Len(box[1]) :
          /\ i < j
          /\ last.res.value[i][2] = last.res.value[j][2]
    /\ \E i, j \in 1..Len(box[1]) :
          /\ i < j
          /\ Earlier(last.res.value[j][1], last.res.value[i][1])

\* ---------------------------------------------------------------- C8
\* C8: no step of any rule changes the caller's box, and a call repeated on
\* the same box with the same parameters returns the same result.
C8_BoxUnchangedAndRepeatable ==
    /\ [][box' = box]_vars
    /\ []((pc = "returned" /\ prev # NoRes) => last.res = prev)

\* A round-loop rule has been run twice on a box it accepts and has returned
\* two or more rounds the second time.
C8_Witness ==
    /\ pc = "returned"
    /\ prev.status = "value"
    /\ last.sig.method \in {"SeqPropAppvl", "ElimPropAppvl", "Phragmen"}
    /\ last.res.status = "value"
    /\ Len(last.res.value) >= 2

\* ---------------------------------------------------------------- C9
\* Voting power of candidate c under the given loads:
\* (1 + sum of load*weight*vote) / total support
VotingPower(c, loads) ==
    RDiv(RAdd(RInt(1),
              RSum([b \in 1..Len(box[2]) |->
                      RScale(RMul(loads[b], box[2][b]), box[3][b][Pos(c)])])),
         Support(Pos(c)))

\* C9: in Phragmen (non-negative weights, every candidate supported) loads
\* start at 0; after each round every ballot approving the round's winner
\* carries the winner's voting power, every other ballot its prior load, and
\* no ballot's load has decreased.
C9_PhragmenLoads ==
    [][/\ (pc # "Phragmen" /\ pc' = "Phragmen") =>
             \A b \in 1..Len(box[2]) : bloads'[b] = RInt(0)
       /\ (pc = "Phragmen" /\ pc' = "Phragmen" /\ ic' = ic + 1) =>
             LET winner == CandRes'[ic'][1][1]
                 power == VotingPower(winner, bloads)
             IN  \A b \in 1..Len(box[2]) :
                    /\ box[3][b][Pos(winner)] = 1 => bloads'[b] = power
                    /\ box[3][b][Pos(winner)] = 0 => bloads'[b] = bloads[b]
                    /\ RLeq(bloads[b], bloads'[b])]_vars

\* Phragmen has run two rounds or more and left two ballots with different
\* positive loads.
C9_Witness ==
    /\ pc = "Phragmen"
    /\ ic >= 2
    /\ \E b1, b2 \in 1..Len(bloads) :
          RLt(RInt(0), bloads[b1]) /\ RLt(bloads[b1], bloads[b2])

\* --------------------------------------------------------------- C10
\* The winners of the first k rounds of the running call, as positions
WinnerPos(k) == [j \in 1..k |-> Pos(CandRes[j][1][1])]

\* A ballot's victory count before round k + 1: its votes for the winners of
\* rounds 1..k
VictoryCount(b, k) == ISum([j \in 1..k |-> box[3][b][WinnerPos(k)[j]]])

\* Score of candidate c in round k + 1
SeqScore(c, k, WtFunc) ==
    RSum([b \in 1..Len(box[2]) |->
            RScale(RMul(box[2][b], Apply(WtFunc, VictoryCount(b, k))), box[3][b][Pos(c)])])

\* C10: in SeqPropAppvl each ballot's victory count is the sum of its votes
\* for the earlier rounds' winners, each remaining candidate's score is the
\* sum of weight * weightFn(victory count) * vote, and the candidate removed
\* is the round's first entry: the greatest score, the earliest remaining
\* candidate among equals.
C10_SeqPropAppvlRounds ==
    pc = "SeqPropAppvl" =>
        /\ \A b \in 1..Len(box[2]) : Victs[b] = VictoryCount(b, Len(CandRes))
        /\ {Cands[j] : j \in 1..Len(Cands)}
             = {box[1][j] : j \in 1..Len(box[1])} \ Firsts(CandRes, Len(CandRes))
        /\ \A i, j \in 1..Len(Cands) : i < j => Earlier(Cands[i], Cands[j])
        /\ \A k \in 1..Len(CandRes) :
              LET round == CandRes[k]
                  R == RoundCands(round)
                  w == round[1][1]
                  Sc(c) == SeqScore(c, k - 1, args.func)
              IN  /\ R = {box[1][j] : j \in 1..Len(box[1])} \ Firsts(CandRes, k - 1)
                  /\ \A j \in 1..(Len(round) - 1) : round[j][2] = Sc(round[j][1])
                  /\ \A d \in R \ {w} :
                        RLt(Sc(d), Sc(w)) \/ (Sc(d) = Sc(w) /\ Earlier(w, d))

\* SeqPropAppvl has run two rounds, a ballot has given more than one point to
\* the winners, and the first round was decided between equal scores.
C10_Witness ==
    /\ pc = "SeqPropAppvl"
    /\ Len(CandRes) >= 2
    /\ \E b \in 1..Len(Victs) : Victs[b] > 1
    /\ CandRes[1][1][2] = CandRes[1][2][2]

====
